---- MODULE Spec2Model ----
(***************************************************************************)
(* Traversal primitives of ndarray-rs (src/ndarray/array/iter.rs):         *)
(*   Iter      flat, row-major element traversal      (Array::flat)        *)
(*   Axes      (extent, stride) traversal             (Array::axes)        *)
(*   AxisView  slab traversal along one axis          (Array::axis_view)   *)
(* The Array container (shape, strides, get, slice) lives outside iter.rs  *)
(* and is modelled from its documented interface.                          *)
(*                                                                         *)
(* Axis numbers, indices and buffer offsets are 0-based as in the code;    *)
(* TLA+ sequences are 1-based, so axis k is position k + 1.                *)
(***************************************************************************)
EXTENDS Integers, Sequences, FiniteSets, TLC

\* ---- bounds of the model ------------------------------------------------
MaxD == 2          \* dimensionalities D in 0..MaxD
MaxExtent == 2     \* extents in 0..MaxExtent
UsizeBits == 2     \* width of usize in the model
MaxBuilt == 2      \* constructions counted per run
MaxSteps == 5      \* steps counted per traversal
MaxSharedSteps == 3  \* steps per traversal while several share the array

UsizeLimit == 2 ^ UsizeBits

VARIABLES
    array,            \* the borrowed Array: [shape, strides, offset, data]
    overflow_checks,  \* build profile: TRUE = overflow checks on (debug)
    iter,             \* the Iter object, if any
    axes,             \* the Axes object, if any
    axis_view,        \* the AxisView object, if any
    hist,             \* per traversal: what its steps returned, up to and
                      \* including the first end-of-sequence
    ended,            \* per traversal: a step has returned end-of-sequence
    last,             \* per traversal: outcome of its latest step
    built,            \* constructions performed so far (capped)
    call,             \* the latest construction call and its axis argument
                      \* (kept by the caller that rebinds one traversal)
    retired,          \* per kind: dropped traversals that had reached
                      \* end-of-sequence
    slice_calls,      \* calls of Array::slice made by the AxisView object
    steps,            \* per traversal: next calls made, counted up to MaxSteps
    panicked          \* "no", or the operation that aborted the program

vars == <<array, overflow_checks, iter, axes, axis_view, hist, ended, last,
          built, call, retired, slice_calls, steps, panicked>>

\* ---- Option ---------------------------------------------------------------
None == [some |-> FALSE]
Some(x) == [some |-> TRUE, val |-> x]

\* ---- the Array collaborator ----------------------------------------------
RECURSIVE Prod(_)
Prod(s) == IF s = <<>> THEN 1 ELSE Head(s) * Prod(Tail(s))

RECURSIVE Dot(_, _)
Dot(a, b) == IF a = <<>> THEN 0 ELSE Head(a) * Head(b) + Dot(Tail(a), Tail(b))

RowMajorStrides(shape) ==
    [i \in 1..Len(shape) |-> Prod(SubSeq(shape, i + 1, Len(shape)))]

ColMajorStrides(shape) ==
    [i \in 1..Len(shape) |-> Prod(SubSeq(shape, 1, i - 1))]

\* An owned array over the buffer 1, 2, ..., Prod(shape), laid out row-major
\* or, as a transposed view is, column-major.
ArrayInit(shape, layout) ==
    LET n == Prod(shape) IN
    [shape   |-> shape,
     strides |-> IF layout = "row" THEN RowMajorStrides(shape)
                                   ELSE ColMajorStrides(shape),
     offset  |-> 0,
     data    |-> [i \in 1..n |-> i]]

\* Array::get: absent when any index is out of bounds for its axis, else a
\* reference to the element, modelled as its buffer offset.
Get(arr, indices) ==
    IF \E i \in 1..Len(arr.shape) : indices[i] >= arr.shape[i]
    THEN None
    ELSE Some(arr.offset + Dot(indices, arr.strides))

Range(s, e) == [start |-> s, end |-> e]

\* Array::slice: a non-copying view restricted to the per-axis ranges; fatal
\* if a range exceeds the extent of its axis.
SliceOk(arr, ranges) ==
    \A i \in 1..Len(arr.shape) :
        ranges[i].start <= ranges[i].end /\ ranges[i].end <= arr.shape[i]

Slice(arr, ranges) ==
    [shape   |-> [i \in 1..Len(arr.shape) |-> ranges[i].end - ranges[i].start],
     strides |-> arr.strides,
     offset  |-> arr.offset
                 + Dot([i \in 1..Len(arr.shape) |-> ranges[i].start], arr.strides),
     data    |-> arr.data]

\* ---- usize arithmetic -----------------------------------------------------
\* v + 1 and v - 1 on usize: the wrapped value and whether it overflowed.
\* With overflow checks on an overflow panics, without them it wraps.
AddOne(v) == [val |-> (v + 1) % UsizeLimit, overflow |-> v + 1 >= UsizeLimit]
SubOne(v) == [val |-> (v - 1) % UsizeLimit, overflow |-> v = 0]

\* ---- Iter -----------------------------------------------------------------
NoIter == [live |-> FALSE, indices |-> <<>>]

IterInit(arr) == [live |-> TRUE, indices |-> [i \in 1..Len(arr.shape) |-> 0]]

\* Variant of increment_idx_at_axis that carries only once the position has
\* passed the extent (`>` for `>=`).
RECURSIVE IncrementIdxAtAxis_CarryLate(_, _, _, _)
IncrementIdxAtAxis_CarryLate(indices, shape, axis, checks) ==
    IF axis >= Len(indices)
    THEN [panic |-> TRUE, indices |-> indices]
    ELSE LET inc == AddOne(indices[axis + 1]) IN
         IF inc.overflow /\ checks
         THEN [panic |-> TRUE, indices |-> indices]
         ELSE LET bumped == [indices EXCEPT ![axis + 1] = inc.val] IN
              IF axis # 0 /\ inc.val > shape[axis + 1]
              THEN IncrementIdxAtAxis_CarryLate([bumped EXCEPT ![axis + 1] = 0],
                                                shape, axis - 1, checks)
              ELSE [panic |-> FALSE, indices |-> bumped]

\* Variant of increment_idx_at_axis that carries without resetting the
\* position it carries out of.
RECURSIVE IncrementIdxAtAxis_NoReset(_, _, _, _)
IncrementIdxAtAxis_NoReset(indices, shape, axis, checks) ==
    IF axis >= Len(indices)
    THEN [panic |-> TRUE, indices |-> indices]
    ELSE LET inc == AddOne(indices[axis + 1]) IN
         IF inc.overflow /\ checks
         THEN [panic |-> TRUE, indices |-> indices]
         ELSE LET bumped == [indices EXCEPT ![axis + 1] = inc.val] IN
              IF axis # 0 /\ inc.val >= shape[axis + 1]
              THEN IncrementIdxAtAxis_NoReset(bumped, shape, axis - 1, checks)
              ELSE [panic |-> FALSE, indices |-> bumped]

\* Variant of increment_idx_at_axis that checks axis 0 against its extent
\* before incrementing and leaves it where it is when it would pass it.
RECURSIVE IncrementIdxAtAxis_ChecksAxis0(_, _, _, _)
IncrementIdxAtAxis_ChecksAxis0(indices, shape, axis, checks) ==
    IF axis >= Len(indices)
    THEN [panic |-> TRUE, indices |-> indices]
    ELSE IF axis = 0 /\ indices[1] + 1 >= shape[1]
    THEN [panic |-> FALSE, indices |-> indices]
    ELSE LET inc == AddOne(indices[axis + 1]) IN
         IF inc.overflow /\ checks
         THEN [panic |-> TRUE, indices |-> indices]
         ELSE LET bumped == [indices EXCEPT ![axis + 1] = inc.val] IN
              IF axis # 0 /\ inc.val >= shape[axis + 1]
              THEN IncrementIdxAtAxis_ChecksAxis0([bumped EXCEPT ![axis + 1] = 0],
                                                  shape, axis - 1, checks)
              ELSE [panic |-> FALSE, indices |-> bumped]

\* Iter::increment_idx_at_axis; an axis outside the index array is an
\* out-of-bounds access of a fixed-size array, which panics.
RECURSIVE IncrementIdxAtAxis(_, _, _, _)
IncrementIdxAtAxis(indices, shape, axis, checks) ==
    IF axis >= Len(indices)
    THEN [panic |-> TRUE, indices |-> indices]
    ELSE LET inc == AddOne(indices[axis + 1]) IN
         IF inc.overflow /\ checks
         THEN [panic |-> TRUE, indices |-> indices]
         ELSE LET bumped == [indices EXCEPT ![axis + 1] = inc.val] IN
              IF axis # 0 /\ inc.val >= shape[axis + 1]
              THEN IncrementIdxAtAxis([bumped EXCEPT ![axis + 1] = 0],
                                      shape, axis - 1, checks)
              ELSE [panic |-> FALSE, indices |-> bumped]

\* Iter::increment_indices: starts at axis D - 1, computed in usize.
IncrementIndices(indices, shape, checks) ==
    LET d == SubOne(Len(indices)) IN
    IF d.overflow /\ checks
    THEN [panic |-> TRUE, indices |-> indices]
    ELSE IncrementIdxAtAxis(indices, shape, d.val, checks)

\* Iter::next: the lookup comes first, then the increment; a panic in the
\* increment loses the item.
IterNextOp(it, arr, checks) ==
    LET item == Get(arr, it.indices)
        inc  == IncrementIndices(it.indices, arr.shape, checks)
    IN [panic |-> inc.panic, item |-> item,
        iter  |-> [it EXCEPT !.indices = inc.indices]]

\* ---- Axes -----------------------------------------------------------------
NoAxes == [live |-> FALSE, axis |-> 0, shape |-> <<>>, strides |-> <<>>]

AxesInit(shape, strides) ==
    [live |-> TRUE, axis |-> 0, shape |-> shape, strides |-> strides]

\* Variant of Axes::next that reads the extent where it should read the stride.
AxesNextOp_ShapeTwice(ax, checks) ==
    LET shape_stride ==
            IF ax.axis < Len(ax.shape)
            THEN Some(<<ax.shape[ax.axis + 1], ax.shape[ax.axis + 1]>>)
            ELSE None
        inc == AddOne(ax.axis)
    IN [panic |-> inc.overflow /\ checks, item |-> shape_stride,
        axes  |-> [ax EXCEPT !.axis = inc.val]]

\* Axes::next
AxesNextOp(ax, checks) ==
    LET shape_stride ==
            IF ax.axis < Len(ax.shape)
            THEN Some(<<ax.shape[ax.axis + 1], ax.strides[ax.axis + 1]>>)
            ELSE None
        inc == AddOne(ax.axis)
    IN [panic |-> inc.overflow /\ checks, item |-> shape_stride,
        axes  |-> [ax EXCEPT !.axis = inc.val]]

\* ---- AxisView -------------------------------------------------------------
NoAxisView == [live |-> FALSE, slice |-> <<>>, axis |-> 0, idx |-> 0]

\* The loop `for (shape, _) in array.axes() { slice.push(0..shape) }`: steps
\* the Axes traversal until its first end-of-sequence.
RECURSIVE CollectRanges(_, _, _)
CollectRanges(ax, acc, checks) ==
    LET r == AxesNextOp(ax, checks) IN
    IF r.panic THEN [panic |-> TRUE, slice |-> acc]
    ELSE IF ~r.item.some THEN [panic |-> FALSE, slice |-> acc]
    ELSE CollectRanges(r.axes, Append(acc, Range(0, r.item.val[1])), checks)

\* Variant of AxisView::init whose bound check is `axis > D`, as its panic
\* message reads.
AxisViewInitOp_OffByOne(arr, axis, checks) ==
    IF axis > Len(arr.shape)
    THEN [panic |-> TRUE, view |-> NoAxisView]
    ELSE LET c == CollectRanges(AxesInit(arr.shape, arr.strides), <<>>, checks) IN
         IF c.panic \/ Len(c.slice) # Len(arr.shape)
         THEN [panic |-> TRUE, view |-> NoAxisView]
         ELSE [panic |-> FALSE,
               view  |-> [live |-> TRUE, slice |-> c.slice,
                          axis |-> axis, idx |-> 0]]

\* AxisView::init
AxisViewInitOp(arr, axis, checks) ==
    IF axis >= Len(arr.shape)
    THEN [panic |-> TRUE, view |-> NoAxisView]
    ELSE LET c == CollectRanges(AxesInit(arr.shape, arr.strides), <<>>, checks) IN
         IF c.panic \/ Len(c.slice) # Len(arr.shape)
         THEN [panic |-> TRUE, view |-> NoAxisView]
         ELSE [panic |-> FALSE,
               view  |-> [live |-> TRUE, slice |-> c.slice,
                          axis |-> axis, idx |-> 0]]

\* Variant of AxisView::next that slices without first narrowing the target
\* axis to idx..idx+1.
AxisViewNextOp_StaleSlice(av, arr, checks) ==
    IF av.idx < arr.shape[av.axis + 1]
    THEN LET sel == av.slice
             inc == AddOne(av.idx)
         IN [panic  |-> ~SliceOk(arr, sel) \/ (inc.overflow /\ checks),
             sliced |-> TRUE,
             sel    |-> sel,
             item   |-> Some(Slice(arr, sel)),
             view   |-> [av EXCEPT !.slice = sel, !.idx = inc.val]]
    ELSE [panic |-> FALSE, sliced |-> FALSE, sel |-> av.slice, item |-> None,
          view |-> av]

\* Variant of AxisView::next whose bound check is `idx <= shape[axis]`.
AxisViewNextOp_Inclusive(av, arr, checks) ==
    IF av.idx <= arr.shape[av.axis + 1]
    THEN LET sel == [av.slice EXCEPT ![av.axis + 1] = Range(av.idx, av.idx + 1)]
             inc == AddOne(av.idx)
         IN [panic  |-> ~SliceOk(arr, sel) \/ (inc.overflow /\ checks),
             sliced |-> TRUE,
             sel    |-> sel,
             item   |-> Some(Slice(arr, sel)),
             view   |-> [av EXCEPT !.slice = sel, !.idx = inc.val]]
    ELSE [panic |-> FALSE, sliced |-> FALSE, sel |-> av.slice, item |-> None,
          view |-> av]

\* Variant of AxisView::next that, like Axes::next, keeps counting once the
\* sequence has ended.
AxisViewNextOp_CountsPastEnd(av, arr, checks) ==
    LET inc == AddOne(av.idx) IN
    IF av.idx < arr.shape[av.axis + 1]
    THEN LET sel == [av.slice EXCEPT ![av.axis + 1] = Range(av.idx, av.idx + 1)]
         IN [panic  |-> ~SliceOk(arr, sel) \/ (inc.overflow /\ checks),
             sliced |-> TRUE,
             sel    |-> sel,
             item   |-> Some(Slice(arr, sel)),
             view   |-> [av EXCEPT !.slice = sel, !.idx = inc.val]]
    ELSE [panic |-> inc.overflow /\ checks, sliced |-> FALSE, sel |-> av.slice,
          item |-> None, view |-> [av EXCEPT !.idx = inc.val]]

\* Variant of AxisView::next that increments the position counter before it
\* narrows the target axis.
AxisViewNextOp_IncrementFirst(av, arr, checks) ==
    IF av.idx < arr.shape[av.axis + 1]
    THEN LET inc == AddOne(av.idx)
             sel == [av.slice EXCEPT ![av.axis + 1] = Range(inc.val, inc.val + 1)]
         IN [panic  |-> ~SliceOk(arr, sel) \/ (inc.overflow /\ checks),
             sliced |-> TRUE,
             sel    |-> sel,
             item   |-> Some(Slice(arr, sel)),
             view   |-> [av EXCEPT !.slice = sel, !.idx = inc.val]]
    ELSE [panic |-> FALSE, sliced |-> FALSE, sel |-> av.slice, item |-> None,
          view |-> av]

\* Variant of AxisView::next that computes the view before it tests the
\* position counter.
AxisViewNextOp_SlicesFirst(av, arr, checks) ==
    LET sel == [av.slice EXCEPT ![av.axis + 1] = Range(av.idx, av.idx + 1)]
        inc == AddOne(av.idx)
    IN IF av.idx < arr.shape[av.axis + 1]
       THEN [panic  |-> ~SliceOk(arr, sel) \/ (inc.overflow /\ checks),
             sliced |-> TRUE,
             sel    |-> sel,
             item   |-> Some(Slice(arr, sel)),
             view   |-> [av EXCEPT !.slice = sel, !.idx = inc.val]]
       ELSE [panic |-> ~SliceOk(arr, sel), sliced |-> TRUE, sel |-> sel,
             item |-> None, view |-> [av EXCEPT !.slice = sel]]

\* AxisView::next
AxisViewNextOp(av, arr, checks) ==
    IF av.idx < arr.shape[av.axis + 1]
    THEN LET sel == [av.slice EXCEPT ![av.axis + 1] = Range(av.idx, av.idx + 1)]
             inc == AddOne(av.idx)
         IN [panic  |-> ~SliceOk(arr, sel) \/ (inc.overflow /\ checks),
             sliced |-> TRUE,
             sel    |-> sel,
             item   |-> Some(Slice(arr, sel)),
             view   |-> [av EXCEPT !.slice = sel, !.idx = inc.val]]
    ELSE [panic |-> FALSE, sliced |-> FALSE, sel |-> av.slice, item |-> None,
          view |-> av]

\* ---- the state machine ------------------------------------------------------
Shapes == UNION {[1..d -> 0..MaxExtent] : d \in 0..MaxD}

Kinds == {"flat", "axes", "axis_view"}

Fresh(f, k, v) == [f EXCEPT ![k] = v]

Init ==
    /\ \E shape \in Shapes, layout \in {"row", "col"} :
           array = ArrayInit(shape, layout)
    /\ overflow_checks \in BOOLEAN
    /\ iter = NoIter
    /\ axes = NoAxes
    /\ axis_view = NoAxisView
    /\ hist = [k \in Kinds |-> <<>>]
    /\ ended = [k \in Kinds |-> FALSE]
    /\ last = [k \in Kinds |-> "new"]
    /\ built = 0
    /\ call = [op |-> "none", axis |-> 0]
    /\ retired = [k \in Kinds |-> 0]
    /\ slice_calls = 0
    /\ steps = [k \in Kinds |-> 0]
    /\ panicked = "no"

\* What a step's outcome is called in `last`.
Outcome(panic, item) ==
    IF panic THEN "panic" ELSE IF item.some THEN "some" ELSE "none"

\* One more next call of traversal k, counted up to MaxSteps.
Stepped(k) ==
    [steps EXCEPT ![k] = IF steps[k] < MaxSteps THEN steps[k] + 1 ELSE MaxSteps]

\* The record of a traversal's steps grows until its first end-of-sequence.
Record(k, panic, entry) ==
    IF panic \/ ended[k] THEN hist[k] ELSE Append(hist[k], entry)

\* The caller keeps one traversal at a time: binding a new one drops the old,
\* and the records of its steps start afresh.
Rebind(op, axis) ==
    /\ hist' = [k \in Kinds |-> <<>>]
    /\ ended' = [k \in Kinds |-> FALSE]
    /\ last' = [k \in Kinds |-> "new"]
    /\ built' = built + 1
    /\ call' = [op |-> op, axis |-> axis]
    /\ retired' = [k \in Kinds |-> IF ended[k] THEN retired[k] + 1 ELSE retired[k]]
    /\ slice_calls' = 0
    /\ steps' = [k \in Kinds |-> 0]

\* Array::flat
Flat ==
    /\ panicked = "no"
    /\ built < MaxBuilt
    /\ iter' = IterInit(array)
    /\ axes' = NoAxes
    /\ axis_view' = NoAxisView
    /\ Rebind("flat", 0)
    /\ UNCHANGED <<array, overflow_checks, panicked>>

\* Variant of the Iter::next step that writes through the reference it looked
\* up.
IterNextWrites ==
    /\ panicked = "no"
    /\ iter.live
    /\ LET r == IterNextOp(iter, array, overflow_checks) IN
        /\ iter' = r.iter
        /\ array' = IF r.item.some
                    THEN [array EXCEPT !.data[r.item.val + 1] = 0]
                    ELSE array
        /\ hist' = Fresh(hist, "flat",
                         Record("flat", r.panic,
                                [idx |-> iter.indices, item |-> r.item]))
        /\ ended' = Fresh(ended, "flat",
                          ended["flat"] \/ (~r.panic /\ ~r.item.some))
        /\ last' = Fresh(last, "flat", Outcome(r.panic, r.item))
        /\ steps' = Stepped("flat")
        /\ panicked' = IF r.panic THEN "Iter::next" ELSE "no"
    /\ UNCHANGED <<overflow_checks, axes, axis_view, built, call, retired,
                   slice_calls>>

\* Iter::next
IterNext ==
    /\ panicked = "no"
    /\ iter.live
    /\ LET r == IterNextOp(iter, array, overflow_checks) IN
        /\ iter' = r.iter
        /\ hist' = Fresh(hist, "flat",
                         Record("flat", r.panic,
                                [idx |-> iter.indices, item |-> r.item]))
        /\ ended' = Fresh(ended, "flat",
                          ended["flat"] \/ (~r.panic /\ ~r.item.some))
        /\ last' = Fresh(last, "flat", Outcome(r.panic, r.item))
        /\ steps' = Stepped("flat")
        /\ panicked' = IF r.panic THEN "Iter::next" ELSE "no"
    /\ UNCHANGED <<array, overflow_checks, axes, axis_view, built, call, retired,
                   slice_calls>>

\* Array::axes
ArrayAxes ==
    /\ panicked = "no"
    /\ built < MaxBuilt
    /\ axes' = AxesInit(array.shape, array.strides)
    /\ iter' = NoIter
    /\ axis_view' = NoAxisView
    /\ Rebind("axes", 0)
    /\ UNCHANGED <<array, overflow_checks, panicked>>

\* Variant of the Axes::next step in which Axes and Iter share their position:
\* the step also advances the axis-0 position of a live Iter.
AxesNextSharesCursor ==
    /\ panicked = "no"
    /\ axes.live
    /\ LET r == AxesNextOp(axes, overflow_checks) IN
        /\ axes' = r.axes
        /\ iter' = IF iter.live /\ Len(iter.indices) >= 1
                   THEN [iter EXCEPT !.indices[1] = AddOne(@).val]
                   ELSE iter
        /\ hist' = Fresh(hist, "axes",
                         Record("axes", r.panic, [item |-> r.item]))
        /\ ended' = Fresh(ended, "axes",
                          ended["axes"] \/ (~r.panic /\ ~r.item.some))
        /\ last' = Fresh(last, "axes", Outcome(r.panic, r.item))
        /\ steps' = Stepped("axes")
        /\ panicked' = IF r.panic THEN "Axes::next" ELSE "no"
    /\ UNCHANGED <<array, overflow_checks, axis_view, built, call, retired,
                   slice_calls>>

\* Axes::next
AxesNext ==
    /\ panicked = "no"
    /\ axes.live
    /\ LET r == AxesNextOp(axes, overflow_checks) IN
        /\ axes' = r.axes
        /\ hist' = Fresh(hist, "axes",
                         Record("axes", r.panic, [item |-> r.item]))
        /\ ended' = Fresh(ended, "axes",
                          ended["axes"] \/ (~r.panic /\ ~r.item.some))
        /\ last' = Fresh(last, "axes", Outcome(r.panic, r.item))
        /\ steps' = Stepped("axes")
        /\ panicked' = IF r.panic THEN "Axes::next" ELSE "no"
    /\ UNCHANGED <<array, overflow_checks, iter, axis_view, built, call, retired,
                   slice_calls>>

\* Array::axis_view(axis)
ArrayAxisView ==
    /\ panicked = "no"
    /\ built < MaxBuilt
    /\ \E axis \in 0..MaxD :
        LET r == AxisViewInitOp(array, axis, overflow_checks) IN
        /\ axis_view' = r.view
        /\ panicked' = IF r.panic THEN "AxisView::init" ELSE "no"
        /\ Rebind("axis_view", axis)
    /\ iter' = NoIter
    /\ axes' = NoAxes
    /\ UNCHANGED <<array, overflow_checks>>

\* AxisView::next
AxisViewNext ==
    /\ panicked = "no"
    /\ axis_view.live
    /\ LET r == AxisViewNextOp(axis_view, array, overflow_checks) IN
        /\ axis_view' = r.view
        /\ hist' = Fresh(hist, "axis_view",
                         Record("axis_view", r.panic,
                                [sel |-> r.sel, item |-> r.item]))
        /\ ended' = Fresh(ended, "axis_view",
                          ended["axis_view"] \/ (~r.panic /\ ~r.item.some))
        /\ last' = Fresh(last, "axis_view", Outcome(r.panic, r.item))
        /\ steps' = Stepped("axis_view")
        /\ slice_calls' = IF r.sliced THEN slice_calls + 1 ELSE slice_calls
        /\ panicked' = IF r.panic THEN "AxisView::next" ELSE "no"
    /\ UNCHANGED <<array, overflow_checks, iter, axes, built, call, retired>>

Next ==
    \/ Flat
    \/ IterNext
    \/ ArrayAxes
    \/ AxesNext
    \/ ArrayAxisView
    \/ AxisViewNext

Spec == Init /\ [][Next]_vars

\* ---- several traversals borrowing the array at once -------------------------
\* The caller binds each kind of traversal at most once and keeps them all;
\* their steps interleave freely, each traversal making up to MaxSharedSteps
\* steps.
\* Array::flat
FlatShared ==
    /\ panicked = "no"
    /\ ~iter.live
    /\ iter' = IterInit(array)
    /\ UNCHANGED <<array, overflow_checks, axes, axis_view, hist, ended, last,
                   built, call, retired, slice_calls, steps, panicked>>

\* Array::axes
ArrayAxesShared ==
    /\ panicked = "no"
    /\ ~axes.live
    /\ axes' = AxesInit(array.shape, array.strides)
    /\ UNCHANGED <<array, overflow_checks, iter, axis_view, hist, ended, last,
                   built, call, retired, slice_calls, steps, panicked>>

\* Array::axis_view(axis)
ArrayAxisViewShared ==
    /\ panicked = "no"
    /\ ~axis_view.live
    /\ \E axis \in 0..MaxD :
        LET r == AxisViewInitOp(array, axis, overflow_checks) IN
        /\ axis_view' = r.view
        /\ panicked' = IF r.panic THEN "AxisView::init" ELSE "no"
    /\ UNCHANGED <<array, overflow_checks, iter, axes, hist, ended, last,
                   built, call, retired, slice_calls, steps>>

IterNextShared == steps["flat"] < MaxSharedSteps /\ IterNext

AxesNextShared == steps["axes"] < MaxSharedSteps /\ AxesNext

AxisViewNextShared == steps["axis_view"] < MaxSharedSteps /\ AxisViewNext

NextShared ==
    \/ FlatShared
    \/ IterNextShared
    \/ ArrayAxesShared
    \/ AxesNextShared
    \/ ArrayAxisViewShared
    \/ AxisViewNextShared

SpecShared == Init /\ [][NextShared]_vars

\* ==== properties ===========================================================
D == Len(array.shape)

\* The j-th (j = 0, 1, ...) index tuple of the lexicographic enumeration of
\* the in-range tuples of `shape`, axis 0 slowest: the mixed-radix digits of j.
LexIndex(shape, j) ==
    [i \in 1..Len(shape) |->
        (j \div Prod(SubSeq(shape, i + 1, Len(shape)))) % shape[i]]

InRangeTuples(shape) ==
    {t \in [1..Len(shape) -> 0..MaxExtent] : \A i \in 1..Len(shape) : t[i] < shape[i]}

HasZeroExtent == \E i \in 1..D : array.shape[i] = 0

\* The steps of the flat traversal recorded so far follow the lexicographic
\* enumeration: step j looked up and returned the element at tuple j, and the
\* step after the last tuple returned end-of-sequence.
FlatFollowsLexOrder ==
    LET h == hist["flat"]
        n == Prod(array.shape)
    IN /\ Len(h) <= n + 1
       /\ \A j \in 1..Len(h) :
            IF j <= n
            THEN /\ h[j].idx = LexIndex(array.shape, j - 1)
                 /\ h[j].item.some
                 /\ h[j].item = Get(array, LexIndex(array.shape, j - 1))
            ELSE ~h[j].item.some
       /\ ended["flat"] =>
            /\ Len(h) = n + 1
            /\ {h[j].idx : j \in 1..n} = InRangeTuples(array.shape)
            /\ \A j, k \in 1..n : h[j].idx = h[k].idx => j = k

\* C1: stepping a fresh flat traversal until its first end-of-sequence yields
\* exactly s0 * ... * s_{D-1} elements, the j-th being the element at the j-th
\* index tuple in lexicographic order (axis 0 slowest), every in-range tuple
\* visited exactly once; in particular no step aborts before that first
\* end-of-sequence.
C1_FlatYieldsAllInOrder ==
    iter.live =>
        /\ FlatFollowsLexOrder
        /\ panicked = "Iter::next" => ended["flat"]

\* C1 restricted to D >= 1, where the code meets it.
C1_FlatYieldsAllInOrderRanked ==
    (iter.live /\ D >= 1) =>
        /\ FlatFollowsLexOrder
        /\ panicked = "Iter::next" => ended["flat"]

C1_WitnessRanked ==
    /\ iter.live /\ D = 2 /\ Prod(array.shape) = 4
    /\ ended["flat"] /\ Len(hist["flat"]) = 5
    /\ array.strides = <<1, 2>>

\* ---- the caller's collect loops -------------------------------------------
\* `array.flat().collect()`: steps a fresh Iter until its first
\* end-of-sequence and gathers the references it yields.
RECURSIVE FlatDrain(_, _, _, _)
FlatDrain(it, arr, checks, acc) ==
    LET r == IterNextOp(it, arr, checks) IN
    IF r.panic THEN [panic |-> TRUE, items |-> acc]
    ELSE IF ~r.item.some THEN [panic |-> FALSE, items |-> acc]
    ELSE FlatDrain(r.iter, arr, checks, Append(acc, r.item.val))

Flatten(arr, checks) == FlatDrain(IterInit(arr), arr, checks, <<>>)

\* ---- C2 -------------------------------------------------------------------
\* The selector that is k..k+1 on axis a and the full range elsewhere.
SlabSelector(shape, a, k) ==
    [i \in 1..Len(shape) |->
        IF i = a + 1 THEN Range(k, k + 1) ELSE Range(0, shape[i])]

\* `view` is the slab of the array at position k of axis a: the array's shape
\* with extent 1 on axis a, its elements those of the array with axis a fixed
\* to k.
IsSlab(view, a, k) ==
    /\ view.shape = [array.shape EXCEPT ![a + 1] = 1]
    /\ \A t \in InRangeTuples(view.shape) :
          /\ Get(view, t).some
          /\ Get(view, t) = Get(array, [t EXCEPT ![a + 1] = k])

\* C2: an axis-slab traversal on axis a < D yields exactly shape[a] views
\* before its first end-of-sequence; the k-th is the array's slice under the
\* selector k..k+1 on axis a, full elsewhere, so it has the array's shape with
\* extent 1 on axis a and the array's elements with axis a fixed to k.
C2_SlabsAreSlices ==
    axis_view.live =>
        LET h == hist["axis_view"]
            a == axis_view.axis
            n == array.shape[a + 1]
        IN /\ a < D
           /\ Len(h) <= n + 1
           /\ \A j \in 1..Len(h) :
                IF j <= n
                THEN /\ h[j].sel = SlabSelector(array.shape, a, j - 1)
                     /\ h[j].item = Some(Slice(array, SlabSelector(array.shape, a, j - 1)))
                     /\ IsSlab(h[j].item.val, a, j - 1)
                ELSE ~h[j].item.some
           /\ ended["axis_view"] => Len(h) = n + 1
           /\ panicked # "AxisView::next"

C2_Witness ==
    /\ axis_view.live /\ axis_view.axis = 1
    /\ array.shape = <<2, 2>> /\ array.strides = <<2, 1>>
    /\ ended["axis_view"] /\ Len(hist["axis_view"]) = 3

\* ---- C3 -------------------------------------------------------------------
\* C3: the axis metadata traversal yields exactly D pairs before its first
\* end-of-sequence, the i-th being (shape[i], strides[i]); this holds of every
\* traversal rebuilt from the same array, whatever was built or consumed
\* before it.
C3_AxesYieldsPairs ==
    axes.live =>
        LET h == hist["axes"] IN
        /\ Len(h) <= D + 1
        /\ \A j \in 1..Len(h) :
             IF j <= D
             THEN h[j].item = Some(<<array.shape[j], array.strides[j]>>)
             ELSE ~h[j].item.some
        /\ ended["axes"] => Len(h) = D + 1
        /\ panicked = "Axes::next" => ended["axes"]

\* A second Axes traversal, built after a first one was consumed, has ended.
C3_Witness ==
    /\ axes.live /\ retired["axes"] >= 1 /\ built >= 2
    /\ array.shape = <<2, 2>>
    /\ ended["axes"] /\ Len(hist["axes"]) = 3

\* ---- C4 -------------------------------------------------------------------
\* C4: AxisView::init with axis >= D aborts during construction: no traversal
\* object exists, Array::slice was never called and no view was produced, and
\* nothing can happen afterwards; with axis < D construction succeeds with
\* position counter 0.
C4_AxisOutOfBoundAborts ==
    (call.op = "axis_view" /\ last["axis_view"] = "new") =>
        IF call.axis >= D
        THEN /\ panicked = "AxisView::init"
             /\ ~axis_view.live
             /\ slice_calls = 0
             /\ hist["axis_view"] = <<>>
             /\ ~ENABLED AxisViewNext
        ELSE /\ panicked = "no"
             /\ axis_view.live
             /\ axis_view.axis = call.axis
             /\ axis_view.idx = 0
             /\ slice_calls = 0

C4_Witness ==
    /\ call.op = "axis_view" /\ D = 1 /\ call.axis = 1
    /\ panicked = "AxisView::init"

\* ---- C5 -------------------------------------------------------------------
RECURSIVE ConcatFlattened(_, _)
ConcatFlattened(views, checks) ==
    IF views = <<>> THEN <<>>
    ELSE Flatten(Head(views), checks).items \o ConcatFlattened(Tail(views), checks)

IsPrefix(p, q) == Len(p) <= Len(q) /\ p = SubSeq(q, 1, Len(p))

\* The views an axis-slab traversal has yielded so far, in order.
ViewsYielded ==
    LET h == hist["axis_view"]
        n == Cardinality({j \in 1..Len(h) : h[j].item.some})
    IN [j \in 1..n |-> h[j].item.val]

\* C5: for D >= 1 the views of the axis-slab traversal along axis 0, each
\* flattened by flat traversal and the results concatenated in order, give the
\* element sequence of the flat traversal of the array itself.
C5_RoundTripAxis0 ==
    (axis_view.live /\ axis_view.axis = 0) =>
        LET whole == Flatten(array, overflow_checks)
            parts == ConcatFlattened(ViewsYielded, overflow_checks)
        IN /\ ~whole.panic
           /\ \A j \in 1..Len(ViewsYielded) :
                ~Flatten(ViewsYielded[j], overflow_checks).panic
           /\ IsPrefix(parts, whole.items)
           /\ ended["axis_view"] => parts = whole.items

C5_Witness ==
    /\ axis_view.live /\ axis_view.axis = 0
    /\ array.shape = <<2, 2>> /\ array.strides = <<1, 2>>
    /\ ended["axis_view"]
    /\ Len(ConcatFlattened(ViewsYielded, overflow_checks)) = 4

\* ---- C6 -------------------------------------------------------------------
\* C6: over an array with an axis of extent 0 the flat traversal yields no
\* element: its first step and every later step return end-of-sequence.
C6_EmptyArrayFlatAlwaysEnds ==
    (iter.live /\ HasZeroExtent) =>
        /\ last["flat"] \in {"new", "none"}
        /\ \A j \in 1..Len(hist["flat"]) : ~hist["flat"][j].item.some

\* ---- C7 -------------------------------------------------------------------
\* C7: over an array with an axis of extent 0, an axis-slab traversal built on
\* any axis a < D yields no view: its first step returns end-of-sequence.
C7_EmptyArrayNoSlabs ==
    (axis_view.live /\ HasZeroExtent /\ last["axis_view"] # "new") =>
        /\ ~hist["axis_view"][1].item.some
        /\ last["axis_view"] = "none"

\* C7 as amended: built on an axis of extent 0 the traversal yields no view,
\* its first and every later step returning end-of-sequence; built on an axis
\* a of positive extent it yields views although another axis has extent 0
\* (shape[a] of them, by C2), and each such view has no elements.
C7_EmptyAxisNoSlabs ==
    (axis_view.live /\ HasZeroExtent /\ last["axis_view"] # "new") =>
        LET h == hist["axis_view"] IN
        IF array.shape[axis_view.axis + 1] = 0
        THEN /\ Len(h) = 1
             /\ ~h[1].item.some
             /\ last["axis_view"] = "none"
             /\ slice_calls = 0
        ELSE /\ h[1].item.some
             /\ \A j \in 1..Len(h) :
                  h[j].item.some =>
                      /\ Prod(h[j].item.val.shape) = 0
                      /\ Flatten(h[j].item.val, overflow_checks)
                            = [panic |-> FALSE, items |-> <<>>]

C7_Witness ==
    /\ axis_view.live /\ array.shape = <<2, 0>> /\ axis_view.axis = 1
    /\ ended["axis_view"] /\ last["axis_view"] = "none"

\* ---- C8 -------------------------------------------------------------------
\* The lookups of the flat traversal, up to its first end-of-sequence, that
\* reported out-of-range.
FailedLookups == {j \in 1..Len(hist["flat"]) : ~hist["flat"][j].item.some}

\* C8: up to and including the first end-of-sequence exactly one lookup of the
\* flat traversal reports out-of-range, made when the axis-0 position has
\* first reached shape[0], and its step returns end-of-sequence.
C8_OneFailedLookupAtAxis0Overflow ==
    (iter.live /\ ended["flat"]) =>
        LET h == hist["flat"]
            m == Len(h)
        IN /\ FailedLookups = {m}
           /\ h[m].idx[1] = array.shape[1]
           /\ \A j \in 1..(m - 1) : h[j].idx[1] < array.shape[1]

\* C8 as amended: exactly one lookup reports out-of-range and its step returns
\* end-of-sequence; when every extent is positive it is made with the counter
\* at (shape[0], 0, ..., 0), the axis-0 position having first reached
\* shape[0]; when some axis has extent 0 it is the very first lookup, made
\* with the all-zero counter, whatever shape[0] is.
C8_OneFailedLookup ==
    (iter.live /\ ended["flat"]) =>
        LET h == hist["flat"]
            m == Len(h)
        IN /\ FailedLookups = {m}
           /\ IF HasZeroExtent
              THEN /\ m = 1
                   /\ h[m].idx = [i \in 1..D |-> 0]
              ELSE /\ h[m].idx = [i \in 1..D |-> IF i = 1 THEN array.shape[1] ELSE 0]
                   /\ \A j \in 1..(m - 1) : h[j].idx[1] < array.shape[1]

C8_Witness ==
    /\ iter.live /\ ended["flat"]
    /\ array.shape = <<2, 2>>
    /\ hist["flat"][5].idx = <<2, 0>>

\* ---- C9 -------------------------------------------------------------------
\* C9: no construction and no step of any traversal, steps after exhaustion
\* and a failed AxisView construction included, changes the borrowed array:
\* shape, strides and buffer are after the operation what they were before.
C9_ArrayNeverChanges == [][array' = array]_vars

\* The flat traversal was stepped past its end, as the second traversal built.
C9_Witness ==
    /\ iter.live /\ ended["flat"] /\ built >= 2
    /\ D = 2 /\ iter.indices[1] > array.shape[1]
    /\ Len(array.data) = 4

\* ---- C10 ------------------------------------------------------------------
\* C10: once a step of a traversal has returned end-of-sequence, every later
\* step of that traversal returns end-of-sequence too, for any number of
\* steps, also when its counter reaches the limit of its integer width.
C10_OnceEndedAlwaysEnded ==
    \A k \in Kinds : ended[k] => last[k] = "none"

\* ---- C11 ------------------------------------------------------------------
\* C11: in every reachable state of the axis metadata traversal, steps after
\* the end of the sequence included, the axis cursor is within 0..D.
C11_AxisCursorWithinD ==
    axes.live => axes.axis \in 0..D

\* ---- C12 ------------------------------------------------------------------
\* C12: the position counter of an axis-slab traversal stays within
\* 0..shape[axis]; a step taken at idx = shape[axis] returns end-of-sequence
\* and leaves position counter, target axis and range selector as they were.
C12_SlabCursorBounded ==
    /\ [](axis_view.live => axis_view.idx \in 0..array.shape[axis_view.axis + 1])
    /\ [][(AxisViewNext /\ axis_view.idx = array.shape[axis_view.axis + 1]) =>
            /\ axis_view' = axis_view
            /\ last'["axis_view"] = "none"
            /\ panicked' = "no"]_vars

\* Two views were yielded and two more steps taken after them.
C12_Witness ==
    /\ axis_view.live /\ array.shape[axis_view.axis + 1] = 2
    /\ axis_view.idx = 2
    /\ ended["axis_view"] /\ steps["axis_view"] = 4
    /\ last["axis_view"] = "none"

\* ---- C13 ------------------------------------------------------------------
\* C13: every selector the axis-slab traversal passes to Array::slice lies
\* within the array's extents: idx..idx+1 with idx < shape[axis] on the target
\* axis, exactly 0..shape[i] on every other axis i, whose entries no step ever
\* changes; so the precondition of Array::slice is never violated.
C13_SelectorsWithinExtents ==
    axis_view.live =>
        LET h == hist["axis_view"]
            a == axis_view.axis
            Others == (1..D) \ {a + 1}
        IN /\ \A i \in Others : axis_view.slice[i] = Range(0, array.shape[i])
           /\ \A j \in 1..Len(h) :
                h[j].item.some =>
                    /\ SliceOk(array, h[j].sel)
                    /\ h[j].sel[a + 1] = Range(j - 1, j)
                    /\ j - 1 < array.shape[a + 1]
                    /\ \A i \in Others : h[j].sel[i] = Range(0, array.shape[i])
           /\ slice_calls = Cardinality({j \in 1..Len(h) : h[j].item.some})
           /\ panicked # "AxisView::next"

C13_Witness ==
    /\ axis_view.live /\ array.shape = <<2, 2>> /\ axis_view.axis = 0
    /\ slice_calls = 2
    /\ axis_view.slice = <<Range(1, 2), Range(0, 2)>>

\* ---- C14 ------------------------------------------------------------------
\* Between steps every non-leading position of the index counter is in range:
\* below its extent, or 0 where the extent is 0.
InnerPositionsInRange ==
    iter.live =>
        \A k \in 2..D :
            IF array.shape[k] > 0
            THEN iter.indices[k] < array.shape[k]
            ELSE iter.indices[k] = 0

\* C14: between steps of the flat traversal, after any number of steps, every
\* non-leading position of the index counter is in range; only the axis-0
\* position can reach or pass its extent, and no step ever sets it back to
\* zero.
C14_OnlyAxis0Overflows ==
    /\ []InnerPositionsInRange
    /\ [][(IterNext /\ D >= 1) =>
            ~(iter.indices[1] # 0 /\ iter'.indices[1] = 0)]_vars

\* ---- C15 ------------------------------------------------------------------
AllExtentsPositive == \A i \in 1..D : array.shape[i] > 0

\* The index counter read as a mixed-radix number, axis D-1 least significant.
OdometerValue(indices, shape) ==
    Dot(indices, [i \in 1..Len(shape) |-> Prod(SubSeq(shape, i + 1, Len(shape)))])

\* C15: the flat traversal advances the index counter by one odometer
\* increment in every step it completes, with no check of axis 0 against its
\* extent; so with all extents positive the counter right after the step that
\* yields the last element is (shape[0], 0, ..., 0), one increment past the
\* last valid index.
C15_OneIncrementPastLast ==
    /\ []((/\ iter.live /\ D >= 1 /\ AllExtentsPositive
           /\ ~ended["flat"] /\ Len(hist["flat"]) = Prod(array.shape)) =>
             iter.indices = [i \in 1..D |-> IF i = 1 THEN array.shape[1] ELSE 0])
    /\ [][(IterNext /\ D >= 1 /\ panicked' = "no") =>
            /\ iter'.indices # iter.indices
            /\ AllExtentsPositive =>
                 OdometerValue(iter'.indices, array.shape)
                   = (OdometerValue(iter.indices, array.shape) + 1)
                       % (UsizeLimit * Prod(Tail(array.shape)))]_vars

C15_Witness ==
    /\ iter.live /\ array.shape = <<2, 2>>
    /\ ~ended["flat"] /\ Len(hist["flat"]) = 4
    /\ hist["flat"][4].idx = <<1, 1>>
    /\ iter.indices = <<2, 0>>

\* ---- C16 ------------------------------------------------------------------
Min(a, b) == IF a <= b THEN a ELSE b

\* C16: the views of an axis-slab traversal are computed lazily: Array::slice
\* is not called during construction, is called exactly once in each step
\* that emits a view, with the selector of the position counter as it was
\* before the step incremented it, and is not called in a step that returns
\* end-of-sequence; after n steps it has been called min(n, shape[axis])
\* times.
C16_SlicesLazily ==
    /\ [](axis_view.live =>
            /\ slice_calls = Min(steps["axis_view"], array.shape[axis_view.axis + 1])
            /\ steps["axis_view"] = 0 => (slice_calls = 0 /\ hist["axis_view"] = <<>>))
    /\ [][AxisViewNext =>
            IF last'["axis_view"] = "some"
            THEN /\ slice_calls' = slice_calls + 1
                 /\ axis_view'.slice[axis_view.axis + 1]
                      = Range(axis_view.idx, axis_view.idx + 1)
                 /\ axis_view'.idx = axis_view.idx + 1
            ELSE slice_calls' = slice_calls]_vars

C16_Witness ==
    /\ axis_view.live /\ array.shape[axis_view.axis + 1] = 2
    /\ steps["axis_view"] = 4
    /\ slice_calls = 2

\* ---- C17 ------------------------------------------------------------------
\* A traversal stepped alone n times from its construction: its cursor, the
\* record of its steps up to the first end-of-sequence, and whether it ended
\* or aborted.
RECURSIVE FlatAlone(_, _, _, _)
FlatAlone(it, n, h, e) ==
    IF n = 0 THEN [cur |-> it, hist |-> h, ended |-> e, panic |-> FALSE]
    ELSE LET r == IterNextOp(it, array, overflow_checks) IN
         IF r.panic THEN [cur |-> r.iter, hist |-> h, ended |-> e, panic |-> TRUE]
         ELSE FlatAlone(r.iter, n - 1,
                        IF e THEN h ELSE Append(h, [idx |-> it.indices, item |-> r.item]),
                        e \/ ~r.item.some)

RECURSIVE AxesAlone(_, _, _, _)
AxesAlone(ax, n, h, e) ==
    IF n = 0 THEN [cur |-> ax, hist |-> h, ended |-> e, panic |-> FALSE]
    ELSE LET r == AxesNextOp(ax, overflow_checks) IN
         IF r.panic THEN [cur |-> r.axes, hist |-> h, ended |-> e, panic |-> TRUE]
         ELSE AxesAlone(r.axes, n - 1,
                        IF e THEN h ELSE Append(h, [item |-> r.item]),
                        e \/ ~r.item.some)

RECURSIVE AxisViewAlone(_, _, _, _)
AxisViewAlone(av, n, h, e) ==
    IF n = 0 THEN [cur |-> av, hist |-> h, ended |-> e, panic |-> FALSE]
    ELSE LET r == AxisViewNextOp(av, array, overflow_checks) IN
         IF r.panic THEN [cur |-> r.view, hist |-> h, ended |-> e, panic |-> TRUE]
         ELSE AxisViewAlone(r.view, n - 1,
                            IF e THEN h ELSE Append(h, [sel |-> r.sel, item |-> r.item]),
                            e \/ ~r.item.some)

SameAsAlone(k, cur, alone, op) ==
    /\ cur = alone.cur
    /\ hist[k] = alone.hist
    /\ ended[k] = alone.ended
    /\ alone.panic <=> panicked = op

\* C17: traversals of any kinds built on the same array do not interfere:
\* under every interleaving of their steps each one is, after its n-th step,
\* where it is after n steps taken alone, and has produced the items it
\* produces alone.
C17_NoInterference ==
    /\ iter.live =>
         SameAsAlone("flat", iter,
                     FlatAlone(IterInit(array), steps["flat"], <<>>, FALSE),
                     "Iter::next")
    /\ axes.live =>
         SameAsAlone("axes", axes,
                     AxesAlone(AxesInit(array.shape, array.strides),
                               steps["axes"], <<>>, FALSE),
                     "Axes::next")
    /\ axis_view.live =>
         SameAsAlone("axis_view", axis_view,
                     AxisViewAlone(AxisViewInitOp(array, axis_view.axis,
                                                  overflow_checks).view,
                                   steps["axis_view"], <<>>, FALSE),
                     "AxisView::next")

\* All three traversals are live on a 2 x 1 array and each has run to its end.
C17_Witness ==
    /\ iter.live /\ axes.live /\ axis_view.live
    /\ array.shape = <<2, 1>>
    /\ ended["flat"] /\ ended["axes"] /\ ended["axis_view"]
    /\ Len(hist["flat"]) = 3 /\ Len(hist["axes"]) = 3
    /\ Len(hist["axis_view"]) = 3

\* ---- C18 ------------------------------------------------------------------
\* C18: every step of the flat traversal completes without aborting, for every
\* D >= 0 and any extents: computing the axis D - 1 does not underflow, the
\* index counter is not accessed outside 0..D, and the step returns an element
\* or end-of-sequence.
C18_FlatStepNeverAborts ==
    /\ panicked # "Iter::next"
    /\ last["flat"] \in {"new", "some", "none"}

====
